---- MODULE Spec2Model ----
(***************************************************************************)
(* The expression evaluator of the calculator: safeEvaluate, its result    *)
(* cache and the math context, as written twice in the repository          *)
(* (src/src/App.tsx and the library file src/unnamed/part_000).            *)
(*                                                                         *)
(* Expressions are TLA+ strings; a character is a one-character string.    *)
(* The evaluation step `new Function('Math', `return ${sanitized}`)`       *)
(* is modelled by a parser and an evaluator for the part of JavaScript's   *)
(* expression grammar the modelled inputs use: numeric literals, + - * /,  *)
(* unary + and -, parentheses, the comma operator, identifiers, member     *)
(* access with '.', and calls.  Error messages are those of V8.            *)
(***************************************************************************)
EXTENDS Integers, Sequences, FiniteSets, TLC

VARIABLES impl, resultCache, localStorage, fresh, clock, last,
          display, equation, locale, ui, applied

vars ==
  <<impl, resultCache, localStorage, fresh, clock, last,
    display, equation, locale, ui, applied>>

\* the state of the calculator's screen and of the direct applications of
\* a function
uiVars == <<display, equation, locale, ui, applied>>

(***************************************************************************)
(* Bounds of the model.                                                    *)
(***************************************************************************)
\* calls are made while fewer than MaxInsertions entries have been inserted
MaxInsertions == 104

\* the registry functions are applied to the quarters k/4, |k| <= MaxQuarters
MaxQuarters == 12

\* tan is applied to the integer angles of -MaxAngle..MaxAngle
MaxAngle == 720

\* the digits after the point computed for a fraction
MaxExpansion == 24

\* formatNumber is applied to 0.s * 10^n for |n| <= MaxPoint
MaxPoint == 12

\* a digit key is pressed while the screen shows fewer characters than this,
\* and the backspace key while it shows no more
MaxTyped == 3

\* the calculator evaluates while fewer entries than this were inserted
MaxUiInsertions == 1

\* the calculator evaluates numerals of at most this many digits, so that
\* the fractions computed stay within TLC's integers
MaxDigits == 4

(***************************************************************************)
(* Strings.                                                                *)
(***************************************************************************)
Char(s, i) == SubSeq(s, i, i)

Rest(s, i) == SubSeq(s, i, Len(s))

DigitChars == {"0", "1", "2", "3", "4", "5", "6", "7", "8", "9"}

LetterChars ==
  {"a", "b", "c", "d", "e", "f", "g", "h", "i", "j", "k", "l", "m",
   "n", "o", "p", "q", "r", "s", "t", "u", "v", "w", "x", "y", "z",
   "A", "B", "C", "D", "E", "F", "G", "H", "I", "J", "K", "L", "M",
   "N", "O", "P", "Q", "R", "S", "T", "U", "V", "W", "X", "Y", "Z"}

\* the regular expression class \w
WordChars == DigitChars \cup LetterChars \cup {"_"}

\* the regular expression class \s, as far as the modelled inputs use it
WhitespaceChars == {" ", "\t", "\n"}

\* String.prototype.includes
includes(s, sub) ==
  \E i \in 1..(Len(s) - Len(sub) + 1) : SubSeq(s, i, i + Len(sub) - 1) = sub

DigitValue(c) ==
  CASE c = "0" -> 0 [] c = "1" -> 1 [] c = "2" -> 2 [] c = "3" -> 3
    [] c = "4" -> 4 [] c = "5" -> 5 [] c = "6" -> 6 [] c = "7" -> 7
    [] c = "8" -> 8 [] c = "9" -> 9

DigitChar(d) ==
  CASE d = 0 -> "0" [] d = 1 -> "1" [] d = 2 -> "2" [] d = 3 -> "3"
    [] d = 4 -> "4" [] d = 5 -> "5" [] d = 6 -> "6" [] d = 7 -> "7"
    [] d = 8 -> "8" [] d = 9 -> "9"

\* the decimal numeral of a natural number
RECURSIVE Numeral(_)
Numeral(n) ==
  IF n < 10 THEN DigitChar(n) ELSE Numeral(n \div 10) \o DigitChar(n % 10)

(***************************************************************************)
(* JavaScript values.  A finite number is an exact fraction n/d in lowest  *)
(* terms (kind "num"); "float" is a finite double the model does not       *)
(* compute (the result of a transcendental function away from its exact    *)
(* points), named by the text of its computation `of`.                     *)
(***************************************************************************)
Abs(n) == IF n < 0 THEN -n ELSE n

Sign(n) == IF n < 0 THEN -1 ELSE IF n > 0 THEN 1 ELSE 0

RECURSIVE Gcd(_, _)
Gcd(a, b) == IF b = 0 THEN a ELSE Gcd(b, a % b)

Value(t, n, d, of) == [t |-> t, n |-> n, d |-> d, of |-> of]

Rat(n, d) ==
  LET g == Gcd(Abs(n), Abs(d))
  IN  Value("num", Sign(d) * (n \div g), Abs(d) \div g, "")

Num(n) == Value("num", n, 1, "")

Infinity(sign) == Value("inf", sign, 0, "")

NaN == Value("nan", 0, 0, "")

undefined == Value("undefined", 0, 0, "")

Float(of) == Value("float", 0, 0, of)

JsString(of) == Value("string", 0, 0, of)

\* a function or an object, named by the expression that reaches it
FunctionRef(of) == Value("function", 0, 0, of)

ObjectRef(of) == Value("object", 0, 0, of)

IsNumberKind(v) == v.t \in {"num", "inf", "nan", "float"}

\* typeof v
typeof(v) ==
  CASE IsNumberKind(v) -> "number"
    [] v.t = "undefined" -> "undefined"
    [] v.t = "string" -> "string"
    [] v.t = "function" -> "function"
    [] OTHER -> "object"

\* the global isFinite, applied to a number
isFinite(v) == v.t \in {"num", "float"}

\* the text of a value, used to name the floats computed from it
ValueText(v) ==
  CASE v.t = "num" ->
         (IF v.n < 0 THEN "-" ELSE "") \o Numeral(Abs(v.n))
           \o (IF v.d = 1 THEN "" ELSE "/" \o Numeral(v.d))
    [] v.t = "inf" -> IF v.n < 0 THEN "-Infinity" ELSE "Infinity"
    [] v.t = "nan" -> "NaN"
    [] v.t = "undefined" -> "undefined"
    [] OTHER -> v.of

\* ToNumber: undefined, functions and objects give NaN
ToNumber(v) == IF IsNumberKind(v) THEN v ELSE NaN

SignOf(v) == IF v.t = "float" THEN 1 ELSE Sign(v.n)

IsZero(v) == v.t = "num" /\ v.n = 0

\* IEEE 754 arithmetic on the modelled values (the sign of zero is not kept)
Arith(op, x, y) ==
  LET a == ToNumber(x)
      b == ToNumber(y)
  IN  CASE a.t = "nan" \/ b.t = "nan" -> NaN
        [] op = "*" /\ ((a.t = "inf" /\ IsZero(b)) \/ (IsZero(a) /\ b.t = "inf")) -> NaN
        [] op = "*" /\ (a.t = "inf" \/ b.t = "inf") -> Infinity(SignOf(a) * SignOf(b))
        [] op = "/" /\ a.t = "inf" /\ b.t = "inf" -> NaN
        [] op = "/" /\ a.t = "inf" -> Infinity(a.n * (IF SignOf(b) < 0 THEN -1 ELSE 1))
        [] op = "/" /\ b.t = "inf" -> Num(0)
        [] op = "/" /\ IsZero(b) /\ IsZero(a) -> NaN
        [] op = "/" /\ IsZero(b) -> Infinity(SignOf(a))
        [] op = "+" /\ a.t = "inf" /\ b.t = "inf" -> IF a.n = b.n THEN a ELSE NaN
        [] op = "-" /\ a.t = "inf" /\ b.t = "inf" -> IF a.n # b.n THEN a ELSE NaN
        [] op \in {"+", "-"} /\ a.t = "inf" -> a
        [] op = "+" /\ b.t = "inf" -> b
        [] op = "-" /\ b.t = "inf" -> Infinity(-b.n)
        [] a.t = "float" \/ b.t = "float" ->
             Float("(" \o ValueText(a) \o op \o ValueText(b) \o ")")
        [] op = "+" -> Rat(a.n * b.d + b.n * a.d, a.d * b.d)
        [] op = "-" -> Rat(a.n * b.d - b.n * a.d, a.d * b.d)
        [] op = "*" -> Rat(a.n * b.n, a.d * b.d)
        [] op = "/" -> Rat(a.n * b.d, a.d * b.n)

\* the binary operators: + concatenates when an operand is not primitive
Binary(op, x, y) ==
  IF op = "+" /\ (x.t \in {"string", "function", "object"}
                    \/ y.t \in {"string", "function", "object"})
    THEN JsString(ValueText(x) \o ValueText(y))
    ELSE Arith(op, x, y)

Negate(x) == Arith("-", Num(0), x)

(***************************************************************************)
(* Completions: an evaluation returns a value or throws.  Everything the   *)
(* modelled code throws is an Error with a message, except where noted.    *)
(***************************************************************************)
Normal(v) == [type |-> "normal", value |-> v, message |-> "", isError |-> FALSE]

\* throw new Error(message), or an error the engine throws
Throw(message) ==
  [type |-> "throw", value |-> undefined, message |-> message, isError |-> TRUE]

\* enum CalculationError
CalculationError_DOMAIN == "Domain error"

CalculationError_UNDEFINED == "Undefined"

CalculationError_SYNTAX == "Syntax error"

CalculationError_OVERFLOW == "Overflow"

CalculationError_INVALID == "Invalid expression"

CalculationError_UNKNOWN == "Unknown error"

CalculationError ==
  {CalculationError_DOMAIN, CalculationError_UNDEFINED, CalculationError_SYNTAX,
   CalculationError_OVERFLOW, CalculationError_INVALID, CalculationError_UNKNOWN}

(***************************************************************************)
(* mathContext.  Comparisons are those of exact fractions and infinities;  *)
(* a comparison with NaN is false.  A guard applied to a "float" is not    *)
(* modelled: no CASE arm matches it and TLC stops.                         *)
(***************************************************************************)
\* a < b for numbers
Less(a, b) ==
  CASE a.t = "nan" \/ b.t = "nan" -> FALSE
    [] a.t = "inf" /\ b.t = "inf" -> a.n < b.n
    [] a.t = "inf" /\ b.t = "num" -> a.n < 0
    [] a.t = "num" /\ b.t = "inf" -> b.n > 0
    [] a.t = "num" /\ b.t = "num" -> a.n * b.d < b.n * a.d

\* Math.abs
MathAbs(a) ==
  CASE a.t = "num" -> Rat(Abs(a.n), a.d)
    [] a.t = "inf" -> Infinity(1)
    [] a.t = "nan" -> NaN

\* x % m for a positive integer m: the remainder has the sign of the dividend
JsRem(a, m) ==
  CASE a.t = "num" ->
         LET q == m * a.d
         IN  IF a.n >= 0 THEN Rat(a.n % q, a.d) ELSE Rat(-((-a.n) % q), a.d)
    [] a.t \in {"inf", "nan"} -> NaN

\* a normalization that keeps the sign of the angle
normalizedOnce(x) == JsRem(ToNumber(x), 360)

\* ((x % 360) + 360) % 360
normalized(x) == JsRem(Arith("+", JsRem(ToNumber(x), 360), Num(360)), 360)

IsDegrees(a, deg) == a.t = "num" /\ a.d = 1 /\ a.n = deg

\* Math.sin of a normalized angle in degrees
sinAt(a) ==
  Normal(CASE a.t = "nan" -> NaN
           [] IsDegrees(a, 0) -> Num(0)
           [] IsDegrees(a, 90) -> Num(1)
           [] IsDegrees(a, 270) -> Num(-1)
           [] OTHER -> Float("sin(" \o ValueText(a) \o ")"))

sin(x) == sinAt(normalized(x))

\* the body of cos after the normalization
cosAt(a) ==
  Normal(CASE a.t = "nan" -> NaN
           [] IsDegrees(a, 0) \/ IsDegrees(a, 360) -> Num(1)
           [] IsDegrees(a, 90) \/ IsDegrees(a, 270) -> Num(0)
           [] IsDegrees(a, 180) -> Num(-1)
           [] IsDegrees(a, 60) \/ IsDegrees(a, 300) -> Rat(1, 2)
           [] IsDegrees(a, 120) \/ IsDegrees(a, 240) -> Rat(-1, 2)
           [] OTHER -> Float("cos(" \o ValueText(a) \o ")"))

cos(x) == cosAt(normalized(x))

\* Math.abs(normalized - deg) < 1e-10.  The fractions of the model have
\* denominators below 1e10, so a difference that is not 0 is at least 1e-10.
NearDegrees(a, deg) == a.t = "num" /\ a.n = deg * a.d

\* tan without its asymptote guard
tanAtUnguarded(a) ==
  Normal(CASE a.t = "nan" -> NaN
           [] IsDegrees(a, 0) \/ IsDegrees(a, 180) \/ IsDegrees(a, 360) -> Num(0)
           [] OTHER -> Float("tan(" \o ValueText(a) \o ")"))

\* the body of tan after the normalization
tanAt(a) ==
  IF NearDegrees(a, 90) \/ NearDegrees(a, 270)
    THEN Throw(CalculationError_UNDEFINED)
    ELSE Normal(CASE a.t = "nan" -> NaN
                  [] IsDegrees(a, 0) \/ IsDegrees(a, 180) \/ IsDegrees(a, 360) -> Num(0)
                  [] IsDegrees(a, 45) \/ IsDegrees(a, 225) -> Num(1)
                  [] IsDegrees(a, 135) \/ IsDegrees(a, 315) -> Num(-1)
                  [] IsDegrees(a, 60) \/ IsDegrees(a, 240) -> Float("sqrt(3)")
                  [] IsDegrees(a, 120) \/ IsDegrees(a, 300) -> Float("-sqrt(3)")
                  [] OTHER -> Float("tan(" \o ValueText(a) \o ")"))

tan(x) == tanAt(normalized(x))

asin(x) ==
  LET a == ToNumber(x)
  IN  IF Less(Num(1), MathAbs(a))
        THEN Throw(CalculationError_DOMAIN)
        ELSE Normal(CASE a.t = "nan" -> NaN
                      [] IsZero(a) -> Num(0)
                      [] OTHER -> Float("asin(" \o ValueText(a) \o ")"))

acos(x) ==
  LET a == ToNumber(x)
  IN  IF Less(Num(1), MathAbs(a))
        THEN Throw(CalculationError_DOMAIN)
        ELSE Normal(CASE a.t = "nan" -> NaN
                      [] a = Num(1) -> Num(0)
                      [] OTHER -> Float("acos(" \o ValueText(a) \o ")"))

atan(x) ==
  LET a == ToNumber(x)
  IN  Normal(CASE a.t = "nan" -> NaN
               [] IsZero(a) -> Num(0)
               [] OTHER -> Float("atan(" \o ValueText(a) \o ")"))

\* a guard that lets zero through
NotPositiveStrict(a) == Less(a, Num(0))

\* x <= 0
NotPositive(a) == Less(a, Num(0)) \/ IsZero(a)

log(x) ==
  LET a == ToNumber(x)
  IN  IF NotPositive(a)
        THEN Throw(CalculationError_DOMAIN)
        ELSE Normal(CASE a.t \in {"nan", "inf"} -> a
                      [] a = Num(1) -> Num(0)
                      [] a = Num(10) -> Num(1)
                      [] a = Num(100) -> Num(2)
                      [] OTHER -> Float("log10(" \o ValueText(a) \o ")"))

ln(x) ==
  LET a == ToNumber(x)
  IN  IF NotPositive(a)
        THEN Throw(CalculationError_DOMAIN)
        ELSE Normal(CASE a.t \in {"nan", "inf"} -> a
                      [] a = Num(1) -> Num(0)
                      [] OTHER -> Float("ln(" \o ValueText(a) \o ")"))

\* the integer square root
ISqrt(n) == CHOOSE r \in 0..n : r * r <= n /\ (r + 1) * (r + 1) > n

IsSquare(n) == ISqrt(n) * ISqrt(n) = n

sqrt(x) ==
  LET a == ToNumber(x)
  IN  IF Less(a, Num(0))
        THEN Throw(CalculationError_DOMAIN)
        ELSE Normal(CASE a.t \in {"nan", "inf"} -> a
                      [] a.t = "num" /\ IsSquare(a.n) /\ IsSquare(a.d) ->
                           Rat(ISqrt(a.n), ISqrt(a.d))
                      [] OTHER -> Float("sqrt(" \o ValueText(a) \o ")"))

\* floor(log2(n)) for n >= 1
RECURSIVE BitLen(_)
BitLen(n) == IF n < 2 THEN 0 ELSE 1 + BitLen(n \div 2)

RECURSIVE IPow(_, _)
IPow(b, e) == IF e = 0 THEN 1 ELSE b * IPow(b, e - 1)

\* Math.pow for an integer base and an integer exponent.  |b|^e is at least
\* 2^(BitLen*e) and below 2^((BitLen+1)*e); a double holds magnitudes below
\* 2^1024.  Exponents between the two estimates are not modelled.
MathPow(a, b) ==
  LET mag == Abs(a.n)
      e == Abs(b.n)
      big == CASE mag < 2 \/ (BitLen(mag) + 1) * e <= 30 -> "exact"
               [] BitLen(mag) * e >= 1024 -> "overflow"
               [] (BitLen(mag) + 1) * e <= 1023 -> "float"
  IN  CASE IsZero(b) -> Num(1)
        [] a.t = "nan" \/ b.t = "nan" -> NaN
        [] a.t = "num" /\ a.d = 1 /\ b.t = "num" /\ b.d = 1 /\ b.n > 0 ->
             (CASE big = "exact" -> Num(IPow(a.n, e))
                [] big = "overflow" ->
                     Infinity(IF a.n < 0 /\ e % 2 = 1 THEN -1 ELSE 1)
                [] big = "float" ->
                     Float("pow(" \o ValueText(a) \o "," \o ValueText(b) \o ")"))
        [] a.t = "num" /\ a.d = 1 /\ b.t = "num" /\ b.d = 1 /\ b.n < 0 ->
             (CASE mag = 0 -> Infinity(1)
                [] big = "exact" -> Rat(1, IPow(a.n, e))
                [] big = "overflow" -> Num(0)
                [] big = "float" ->
                     Float("pow(" \o ValueText(a) \o "," \o ValueText(b) \o ")"))
        [] a.t = "num" /\ a.n < 0 /\ b.t = "num" /\ b.d > 1 -> NaN

\* if (!isFinite(result)) throw new Error(CalculationError.OVERFLOW)
powResult(result) ==
  IF ~isFinite(result) THEN Throw(CalculationError_OVERFLOW) ELSE Normal(result)

pow(base, exp) == powResult(MathPow(ToNumber(base), ToNumber(exp)))

RegistryFunctions ==
  {"sin", "cos", "tan", "asin", "acos", "atan", "log", "ln", "sqrt", "pow"}

RegistryConstants == {"pi", "e"}

\* mathContext[name]: `...Math` copies nothing, because no property of Math
\* is enumerable, so the object holds the twelve names written in the literal
mathContext(name) ==
  CASE name \in RegistryFunctions -> FunctionRef("Math." \o name)
    [] name = "pi" -> Float("pi")
    [] name = "e" -> Float("e")
    [] OTHER -> undefined

Arg(args, i) == IF i <= Len(args) THEN args[i] ELSE undefined

\* a call of a function of mathContext
CallRegistry(name, args) ==
  CASE name = "sin" -> sin(Arg(args, 1))
    [] name = "cos" -> cos(Arg(args, 1))
    [] name = "tan" -> tan(Arg(args, 1))
    [] name = "asin" -> asin(Arg(args, 1))
    [] name = "acos" -> acos(Arg(args, 1))
    [] name = "atan" -> atan(Arg(args, 1))
    [] name = "log" -> log(Arg(args, 1))
    [] name = "ln" -> ln(Arg(args, 1))
    [] name = "sqrt" -> sqrt(Arg(args, 1))
    [] name = "pow" -> pow(Arg(args, 1), Arg(args, 2))

(***************************************************************************)
(* The lexer of the evaluation step.  The text has no whitespace left.     *)
(***************************************************************************)
Token(k, text, v) == [k |-> k, text |-> text, v |-> v]

\* the length of the longest prefix of s made of characters of `chars`
RECURSIVE Span(_, _)
Span(s, chars) ==
  IF s # "" /\ Char(s, 1) \in chars THEN 1 + Span(Rest(s, 2), chars) ELSE 0

\* the value of a digit string in a base
RECURSIVE DigitsValue(_, _)
DigitsValue(s, base) ==
  IF s = "" THEN 0
  ELSE DigitsValue(SubSeq(s, 1, Len(s) - 1), base) * base + DigitValue(Char(s, Len(s)))

RECURSIVE TenTo(_)
TenTo(k) == IF k = 0 THEN 1 ELSE 10 * TenTo(k - 1)

\* a numeric literal: decimal digits with an optional fraction; a literal of
\* several digits that starts with 0 is a legacy octal literal when all its
\* digits are below 8 (the function body is sloppy-mode code) and takes no
\* fraction
NumberToken(s) ==
  LET n == Span(s, DigitChars)
      int == SubSeq(s, 1, n)
      legacy == n > 1 /\ Char(s, 1) = "0"
      octal == legacy /\ Span(int, {"0", "1", "2", "3", "4", "5", "6", "7"}) = n
      dot == ~legacy /\ Len(s) > n /\ Char(s, n + 1) = "."
      m == IF dot THEN Span(Rest(s, n + 2), DigitChars) ELSE 0
      frac == SubSeq(s, n + 2, n + 1 + m)
      len == IF dot THEN n + 1 + m ELSE n
      v == IF octal THEN Num(DigitsValue(int, 8))
           ELSE Rat(DigitsValue(int, 10) * TenTo(m) + DigitsValue(frac, 10), TenTo(m))
  IN  Token("num", SubSeq(s, 1, len), v)

\* "**", and the comment openers "//" and "/*": not modelled
TwoCharPunctuator(s) ==
  /\ Len(s) > 1
  /\ \/ Char(s, 1) \in {"*", "/"} /\ Char(s, 2) = Char(s, 1)
     \/ Char(s, 1) = "/" /\ Char(s, 2) = "*"

\* "++" and "--"
UpdatePunctuator(s) ==
  Len(s) > 1 /\ Char(s, 1) \in {"+", "-"} /\ Char(s, 2) = Char(s, 1)

\* the first token of a non-empty text.  An identifier character right after
\* a numeric literal is the lexical error "Invalid or unexpected token" (V8)
NextToken(s) ==
  LET c == Char(s, 1)
  IN  CASE c \in DigitChars \/ (c = "." /\ Len(s) > 1 /\ Char(s, 2) \in DigitChars) ->
             LET t == NumberToken(IF c = "." THEN "0" \o s ELSE s)
                 len == IF c = "." THEN Len(t.text) - 1 ELSE Len(t.text)
             IN  IF Len(s) > len /\ Char(s, len + 1) \in (LetterChars \cup {"_"})
                   THEN Token("bad", SubSeq(s, 1, len + 1), undefined)
                   ELSE Token("num", SubSeq(s, 1, len), t.v)
        [] c \in LetterChars \cup {"_"} ->
             Token("id", SubSeq(s, 1, Span(s, WordChars)), undefined)
        [] UpdatePunctuator(s) -> Token("punct", SubSeq(s, 1, 2), undefined)
        [] c \notin WordChars /\ ~(c = ".") /\ ~TwoCharPunctuator(s)
             /\ ~UpdatePunctuator(s) ->
             Token("punct", c, undefined)
        [] c = "." /\ ~(Len(s) > 1 /\ Char(s, 2) \in DigitChars) ->
             Token("punct", c, undefined)

RECURSIVE Tokenize(_)
Tokenize(s) ==
  IF s = "" THEN <<>>
  ELSE LET t == NextToken(s) IN <<t>> \o Tokenize(Rest(s, Len(t.text) + 1))

(***************************************************************************)
(* The parser: `return <Expression>` as the body of a function.            *)
(***************************************************************************)
EndToken == Token("eof", "}", undefined)

Tok(toks, i) == IF i <= Len(toks) THEN toks[i] ELSE EndToken

IsPunct(toks, i, c) == Tok(toks, i).k = "punct" /\ Tok(toks, i).text = c

\* words of the language that are not identifiers; expressions that use them
\* are not modelled
ReservedWords ==
  {"this", "true", "false", "null", "new", "typeof", "void", "delete", "in",
   "instanceof", "function", "class", "await", "yield", "let", "async"}

Parsed(i, ast) == [ok |-> TRUE, i |-> i, ast |-> ast, message |-> ""]

\* SyntaxError at token i, with V8's message
Unexpected(toks, i) ==
  LET t == Tok(toks, i)
  IN  [ok |-> FALSE, i |-> i, ast |-> undefined,
       message |->
         CASE t.k = "bad" -> "Invalid or unexpected token"
           [] t.k = "num" -> "Unexpected number"
           [] t.k = "id" -> "Unexpected identifier '" \o t.text \o "'"
           [] OTHER -> "Unexpected token '" \o t.text \o "'"]

\* SyntaxError with a message of its own
SyntaxError(i, message) == [ok |-> FALSE, i |-> i, ast |-> undefined, message |-> message]

\* an expression "++" and "--" can be applied to
IsReference(ast) == ast.node \in {"Identifier", "Member"}

Literal(v) == [node |-> "Literal", value |-> v]

Identifier(name) == [node |-> "Identifier", name |-> name]

UnaryExpression(op, arg) == [node |-> "Unary", op |-> op, argument |-> arg]

BinaryExpression(op, l, r) == [node |-> "Binary", op |-> op, left |-> l, right |-> r]

SequenceExpression(l, r) == [node |-> "Sequence", left |-> l, right |-> r]

MemberExpression(obj, name) == [node |-> "Member", object |-> obj, property |-> name]

CallExpression(callee, args) == [node |-> "Call", callee |-> callee, arguments |-> args]

\* The grammar, one rule per arm; `left` is the expression parsed so far (for
\* the rules that continue one) or the arguments collected so far.
\*   Expression      Additive (',' Additive)*
\*   Additive        Multiplicative (('+' | '-') Multiplicative)*
\*   Multiplicative  Unary (('*' | '/') Unary)*
\*   Unary           ('-' | '+') Unary | Primary Postfix
\*   Postfix         ('.' identifier | '(' Arguments)*
\*   Arguments       ')' | Additive (',' Additive)* ','? ')'
\*   Primary         number | identifier | '(' Expression ')'
\* "++" and "--" are early errors when their operand is no reference; a '/'
\* where an operand is expected opens a regular expression literal, which is
\* unterminated when no other '/' follows.  Array literals ('['), complete
\* regular expression literals, updates of a reference and reserved words
\* are not modelled.
RECURSIVE Parse(_, _, _, _)
Parse(rule, toks, i, left) ==
  LET t == Tok(toks, i)
  IN  CASE rule = "Expression" ->
             LET l == Parse("Additive", toks, i, left)
             IN  IF l.ok THEN Parse("ExpressionRest", toks, l.i, l.ast) ELSE l
        [] rule = "ExpressionRest" ->
             IF IsPunct(toks, i, ",")
               THEN LET r == Parse("Additive", toks, i + 1, left)
                    IN  IF r.ok
                          THEN Parse("ExpressionRest", toks, r.i,
                                     SequenceExpression(left, r.ast))
                          ELSE r
               ELSE Parsed(i, left)
        [] rule = "Additive" ->
             LET l == Parse("Multiplicative", toks, i, left)
             IN  IF l.ok THEN Parse("AdditiveRest", toks, l.i, l.ast) ELSE l
        [] rule = "AdditiveRest" ->
             IF IsPunct(toks, i, "+") \/ IsPunct(toks, i, "-")
               THEN LET r == Parse("Multiplicative", toks, i + 1, left)
                    IN  IF r.ok
                          THEN Parse("AdditiveRest", toks, r.i,
                                     BinaryExpression(t.text, left, r.ast))
                          ELSE r
               ELSE Parsed(i, left)
        [] rule = "Multiplicative" ->
             LET l == Parse("Unary", toks, i, left)
             IN  IF l.ok THEN Parse("MultiplicativeRest", toks, l.i, l.ast) ELSE l
        [] rule = "MultiplicativeRest" ->
             IF IsPunct(toks, i, "*") \/ IsPunct(toks, i, "/")
               THEN LET r == Parse("Unary", toks, i + 1, left)
                    IN  IF r.ok
                          THEN Parse("MultiplicativeRest", toks, r.i,
                                     BinaryExpression(t.text, left, r.ast))
                          ELSE r
               ELSE Parsed(i, left)
        [] rule = "Unary" ->
             (CASE IsPunct(toks, i, "-") \/ IsPunct(toks, i, "+") ->
                     LET a == Parse("Unary", toks, i + 1, left)
                     IN  IF a.ok THEN Parsed(a.i, UnaryExpression(t.text, a.ast)) ELSE a
                [] IsPunct(toks, i, "--") \/ IsPunct(toks, i, "++") ->
                     LET a == Parse("Unary", toks, i + 1, left)
                     IN  (CASE ~a.ok -> a
                            [] a.ok /\ ~IsReference(a.ast) ->
                                 SyntaxError(i, "Invalid left-hand side expression in prefix operation"))
                [] OTHER ->
                     LET p == Parse("Primary", toks, i, left)
                     IN  IF p.ok THEN Parse("Postfix", toks, p.i, p.ast) ELSE p)
        [] rule = "Postfix" ->
             (CASE IsPunct(toks, i, ".") ->
                     IF Tok(toks, i + 1).k = "id"
                       THEN Parse("Postfix", toks, i + 2,
                                  MemberExpression(left, Tok(toks, i + 1).text))
                       ELSE Unexpected(toks, i + 1)
                [] IsPunct(toks, i, "(") ->
                     LET a == Parse("Arguments", toks, i + 1, <<>>)
                     IN  IF a.ok
                           THEN Parse("Postfix", toks, a.i, CallExpression(left, a.ast))
                           ELSE a
                [] (IsPunct(toks, i, "--") \/ IsPunct(toks, i, "++"))
                     /\ ~IsReference(left) ->
                     SyntaxError(i, "Invalid left-hand side expression in postfix operation")
                [] ~(IsPunct(toks, i, ".") \/ IsPunct(toks, i, "(")
                       \/ IsPunct(toks, i, "[") \/ IsPunct(toks, i, "--")
                       \/ IsPunct(toks, i, "++")) ->
                     Parsed(i, left))
        [] rule = "Arguments" ->
             IF IsPunct(toks, i, ")")
               THEN Parsed(i + 1, left)
               ELSE LET a == Parse("Additive", toks, i, left)
                    IN  CASE ~a.ok -> a
                          [] IsPunct(toks, a.i, ",") ->
                               Parse("Arguments", toks, a.i + 1, Append(left, a.ast))
                          [] IsPunct(toks, a.i, ")") ->
                               Parsed(a.i + 1, Append(left, a.ast))
                          [] OTHER -> Unexpected(toks, a.i)
        [] rule = "Primary" ->
             (CASE t.k = "num" -> Parsed(i + 1, Literal(t.v))
                [] t.k = "id" /\ t.text \notin ReservedWords ->
                     Parsed(i + 1, Identifier(t.text))
                [] t.k = "punct" /\ t.text = "(" ->
                     LET e == Parse("Expression", toks, i + 1, left)
                     IN  CASE ~e.ok -> e
                           [] IsPunct(toks, e.i, ")") -> Parsed(e.i + 1, e.ast)
                           [] OTHER -> Unexpected(toks, e.i)
                [] t.k \in {"bad", "eof"} -> Unexpected(toks, i)
                [] t.k = "punct" /\ t.text = "/"
                     /\ ~\E j \in (i + 1)..Len(toks) : IsPunct(toks, j, "/") ->
                     SyntaxError(i, "Invalid regular expression: missing /")
                [] t.k = "punct" /\ t.text \notin {"(", "[", "/"} -> Unexpected(toks, i))

\* the body must end where the expression ends
WholeBody(toks, e) ==
  CASE ~e.ok -> e
    [] e.i > Len(toks) -> e
    [] OTHER -> Unexpected(toks, e.i)

ParseTokens(toks) == WholeBody(toks, Parse("Expression", toks, 1, undefined))

\* new Function('Math', `return ${sanitized}`): the parse of the body
ParseBody(sanitized) == ParseTokens(Tokenize(sanitized))

(***************************************************************************)
(* The evaluator.  The body runs as sloppy-mode code of the global scope   *)
(* with one parameter, Math, bound to mathContext: every other identifier  *)
(* is looked up in the host's global object.  The host is modelled by the   *)
(* storage object App.tsx keeps the theme in, localStorage (the set of its *)
(* keys).                                                                  *)
(***************************************************************************)
Host(storage) == [localStorage |-> storage]

Outcome(c, host) == [c |-> c, host |-> host]

\* globals of a browser the model gives no value to
UnmodelledGlobals ==
  {"window", "self", "globalThis", "document", "Date", "Number", "Object",
   "String", "Array", "JSON", "parseInt", "parseFloat", "isNaN", "isFinite",
   "alert", "eval", "Function", "location", "history", "navigator",
   "performance", "sessionStorage", "innerWidth", "innerHeight", "name",
   "length", "top"}

\* an identifier reference
ResolveIdentifier(name, host) ==
  CASE name = "Math" -> Normal(ObjectRef("Math"))
    [] name = "localStorage" -> Normal(ObjectRef("localStorage"))
    [] name = "Infinity" -> Normal(Infinity(1))
    [] name = "NaN" -> Normal(NaN)
    [] name = "undefined" -> Normal(undefined)
    [] name \notin UnmodelledGlobals \cup
         {"Math", "localStorage", "Infinity", "NaN", "undefined"} ->
         Throw(name \o " is not defined")

\* properties every object inherits; expressions that read them are not modelled
InheritedNames ==
  {"constructor", "toString", "valueOf", "toLocaleString", "hasOwnProperty",
   "isPrototypeOf", "propertyIsEnumerable", "__proto__", "toFixed",
   "toPrecision", "toExponential", "call", "apply", "bind", "name", "length"}

\* obj.name
GetProperty(obj, name, host) ==
  CASE obj.t = "undefined" ->
         Throw("Cannot read properties of undefined (reading '" \o name \o "')")
    [] obj.t = "object" /\ obj.of = "Math" /\ name \notin InheritedNames ->
         Normal(mathContext(name))
    [] obj.t = "object" /\ obj.of = "localStorage" /\ name = "clear" ->
         Normal(FunctionRef("localStorage.clear"))
    [] obj.t = "object" /\ obj.of = "localStorage" /\ name = "length" ->
         Normal(Num(Cardinality(host.localStorage)))
    [] obj.t \notin {"undefined", "object"} /\ name \notin InheritedNames ->
         Normal(undefined)

\* the text of a callee, as V8 prints it in "... is not a function"
RECURSIVE CalleeText(_)
CalleeText(ast) ==
  CASE ast.node = "Identifier" -> ast.name
    [] ast.node = "Member" -> CalleeText(ast.object) \o "." \o ast.property
    [] OTHER -> "(intermediate value)"

\* a call of the function value f
Apply(f, args, host) ==
  CASE f.of = "localStorage.clear" ->
         Outcome(Normal(undefined), Host({}))
    [] SubSeq(f.of, 1, 5) = "Math." ->
         Outcome(CallRegistry(Rest(f.of, 6), args), host)

RECURSIVE Evaluate(_, _), EvaluateArguments(_, _, _)

\* the arguments of a call, left to right: c.value is the sequence of values
EvaluateArguments(args, acc, host) ==
  IF args = <<>> THEN Outcome(Normal(acc), host)
  ELSE LET a == Evaluate(Head(args), host)
       IN  IF a.c.type = "throw" THEN a
           ELSE EvaluateArguments(Tail(args), Append(acc, a.c.value), a.host)

Evaluate(ast, host) ==
  CASE ast.node = "Literal" -> Outcome(Normal(ast.value), host)
    [] ast.node = "Identifier" -> Outcome(ResolveIdentifier(ast.name, host), host)
    [] ast.node = "Unary" ->
         LET a == Evaluate(ast.argument, host)
         IN  IF a.c.type = "throw" THEN a
             ELSE Outcome(Normal(IF ast.op = "-" THEN Negate(a.c.value)
                                                 ELSE ToNumber(a.c.value)), a.host)
    [] ast.node = "Binary" ->
         LET l == Evaluate(ast.left, host)
         IN  IF l.c.type = "throw" THEN l
             ELSE LET r == Evaluate(ast.right, l.host)
                  IN  IF r.c.type = "throw" THEN r
                      ELSE Outcome(Normal(Binary(ast.op, l.c.value, r.c.value)), r.host)
    [] ast.node = "Sequence" ->
         LET l == Evaluate(ast.left, host)
         IN  IF l.c.type = "throw" THEN l ELSE Evaluate(ast.right, l.host)
    [] ast.node = "Member" ->
         LET o == Evaluate(ast.object, host)
         IN  IF o.c.type = "throw" THEN o
             ELSE Outcome(GetProperty(o.c.value, ast.property, o.host), o.host)
    [] ast.node = "Call" ->
         LET f == Evaluate(ast.callee, host)
         IN  IF f.c.type = "throw" THEN f
             ELSE LET a == EvaluateArguments(ast.arguments, <<>>, f.host)
                  IN  CASE a.c.type = "throw" -> a
                        [] f.c.value.t # "function" ->
                             Outcome(Throw(CalleeText(ast.callee) \o " is not a function"),
                                     a.host)
                        [] OTHER -> Apply(f.c.value, a.c.value, a.host)

\* the call of the compiled function; a SyntaxError of the body is thrown
\* before anything runs
Run(body, host) ==
  IF body.ok THEN Evaluate(body.ast, host) ELSE Outcome(Throw(body.message), host)

\* new Function('Math', `return ${sanitized}`)(mathContext)
RunFunction(sanitized, host) == Run(ParseBody(sanitized), host)

(***************************************************************************)
(* resultCache: a Map keeps its entries in insertion order, so it is a     *)
(* sequence of entries, oldest first.  `at` is the number of insertions    *)
(* made before the entry's own: it records the order of insertion and is   *)
(* read by no operation.                                                   *)
(***************************************************************************)
\* the size the eviction check compares with
CacheLimit == 100

Entry(key, value, at) == [key |-> key, value |-> value, at |-> at]

\* resultCache.has(expression)
CacheHas(cache, expression) == \E i \in 1..Len(cache) : cache[i].key = expression

\* resultCache.get(expression)
CacheGet(cache, expression) ==
  (CHOOSE e \in {cache[i] : i \in 1..Len(cache)} : e.key = expression).value

\* resultCache.set(expression, result), reached only when the key is absent
CacheSet(cache, expression, result, now) ==
  Append(cache, Entry(expression, result, now))

\* an eviction check that deletes nothing
EvictNothing(cache) == cache

\* if (resultCache.size > 100) delete the first key of the iteration order
Evict(cache) == IF Len(cache) > CacheLimit THEN Tail(cache) ELSE cache

\* expression.replace(/\s+/g, '')
RECURSIVE sanitize(_)
sanitize(expression) ==
  IF expression = "" THEN ""
  ELSE (IF Char(expression, 1) \in WhitespaceChars THEN "" ELSE Char(expression, 1))
         \o sanitize(Rest(expression, 2))

\* the class [0-9+\-*/().Math\w,[\]]
AllowedChars ==
  DigitChars \cup {"+", "-", "*", "/", "(", ")", ".", "M", "a", "t", "h"}
    \cup WordChars \cup {",", "[", "]"}

\* /^[0-9+\-*/().Math\w,[\]]+$/.test(sanitized)
RegexTest(sanitized) ==
  /\ Len(sanitized) >= 1
  /\ \A i \in 1..Len(sanitized) : Char(sanitized, i) \in AllowedChars

\* (sanitized.match(/c/g) || []).length
CountChar(sanitized, c) ==
  Cardinality({i \in 1..Len(sanitized) : Char(sanitized, i) = c})

\* if (typeof result !== 'number' || !isFinite(result)) throw INVALID
ValidateResult(r) ==
  IF r.c.type = "throw" THEN r
  ELSE IF typeof(r.c.value) # "number" \/ ~isFinite(r.c.value)
         THEN Outcome(Throw(CalculationError_INVALID), r.host)
         ELSE r

\* a catch block whose last case gives UNKNOWN
CatchUnknown(error) ==
  IF error.isError
    THEN CASE includes(error.message, "Domain") -> Throw(CalculationError_DOMAIN)
           [] includes(error.message, "Undefined") -> Throw(CalculationError_UNDEFINED)
           [] includes(error.message, "Overflow") -> Throw(CalculationError_OVERFLOW)
           [] includes(error.message, "Invalid") -> Throw(CalculationError_INVALID)
           [] OTHER -> Throw(CalculationError_UNKNOWN)
    ELSE Throw(CalculationError_UNKNOWN)

\* the catch block of the library file
Catch(error) ==
  IF error.isError
    THEN CASE includes(error.message, "Domain") -> Throw(CalculationError_DOMAIN)
           [] includes(error.message, "Undefined") -> Throw(CalculationError_UNDEFINED)
           [] includes(error.message, "Overflow") -> Throw(CalculationError_OVERFLOW)
           [] includes(error.message, "Invalid") -> Throw(CalculationError_INVALID)
           [] OTHER -> Throw(CalculationError_SYNTAX)
    ELSE Throw(CalculationError_UNKNOWN)

\* the catch block of App.tsx
AppCatch(error) ==
  IF error.isError
    THEN CASE includes(error.message, "Domain") -> Throw(CalculationError_DOMAIN)
           [] includes(error.message, "Undefined") -> Throw(CalculationError_UNDEFINED)
           [] includes(error.message, "Overflow") -> Throw(CalculationError_OVERFLOW)
           [] includes(error.message, "Invalid") -> Throw("Math Error")
           [] OTHER -> Throw(CalculationError_SYNTAX)
    ELSE Throw(CalculationError_UNKNOWN)

\* what a call of safeEvaluate gives: its completion, the cache and the host
\* after it, and the path it took: whether the cache was hit, whether the text
\* was handed to the evaluation step, and what that step produced
Call(c, cache, host, hit, handed, produced) ==
  [c |-> c, cache |-> cache, host |-> host, hit |-> hit, handed |-> handed,
   produced |-> produced]

\* no evaluation step was run
NoResult == [type |-> "none", value |-> undefined, message |-> "", isError |-> FALSE]

\* the end of the try statement: store and return, or classify what was caught;
\* `raw` is what the evaluation step gave and r what the try block gave
Settle(which, expression, cache, now, raw, r) ==
  IF r.c.type = "normal"
    THEN Call(r.c, CacheSet(cache, expression, r.c.value, now), r.host,
              FALSE, TRUE, raw.c)
    ELSE Call(IF which = "App" THEN AppCatch(r.c) ELSE Catch(r.c),
              cache, r.host, FALSE, TRUE, raw.c)

\* a try statement without the validation of the result
TryCatchUnvalidated(which, expression, cache, now, raw) ==
  Settle(which, expression, cache, now, raw, raw)

\* the try statement, given what the evaluation step gave
TryCatch(which, expression, cache, now, raw) ==
  Settle(which, expression, cache, now, raw, ValidateResult(raw))

\* a validation without the balance check
ValidateUnbalanced(which, expression, sanitized, cache, host, now) ==
  IF ~RegexTest(sanitized)
    THEN Call(Throw(CalculationError_INVALID), cache, host, FALSE, FALSE, NoResult)
    ELSE TryCatch(which, expression, cache, now, RunFunction(sanitized, host))

\* the validation of the sanitized text, then the try statement
Validate(which, expression, sanitized, cache, host, now) ==
  CASE ~RegexTest(sanitized) ->
         Call(Throw(CalculationError_INVALID), cache, host, FALSE, FALSE, NoResult)
    [] RegexTest(sanitized) /\ CountChar(sanitized, "(") # CountChar(sanitized, ")") ->
         Call(Throw(CalculationError_SYNTAX), cache, host, FALSE, FALSE, NoResult)
    [] OTHER ->
         TryCatch(which, expression, cache, now, RunFunction(sanitized, host))

\* a lookup that moves the entry it hits to the end, as a least-recently-used
\* cache would
LookupRefreshing(which, expression, cache, host, now) ==
  IF CacheHas(cache, expression)
    THEN Call(Normal(CacheGet(cache, expression)),
              SelectSeq(cache, LAMBDA e : e.key # expression)
                \o SelectSeq(cache, LAMBDA e : e.key = expression),
              host, TRUE, FALSE, NoResult)
    ELSE Validate(which, expression, sanitize(expression), cache, host, now)

\* the lookup in the cache left by the eviction check
Lookup(which, expression, cache, host, now) ==
  IF CacheHas(cache, expression)
    THEN Call(Normal(CacheGet(cache, expression)), cache, host, TRUE, FALSE, NoResult)
    ELSE Validate(which, expression, sanitize(expression), cache, host, now)

\* a safeEvaluate that looks the expression up before the eviction check
safeEvaluateLookupFirst(which, expression, cache0, host, now) ==
  IF CacheHas(cache0, expression)
    THEN Call(Normal(CacheGet(cache0, expression)), cache0, host, TRUE, FALSE, NoResult)
    ELSE Lookup(which, expression, Evict(cache0), host, now)

\* safeEvaluate of module `which` ("App" for App.tsx, "lib" for the library
\* file); `now` is the number of insertions made so far
safeEvaluate(which, expression, cache0, host, now) ==
  Lookup(which, expression, Evict(cache0), host, now)

(***************************************************************************)
(* formatNumber.  The number it is given is a Value of kind "num", "inf"   *)
(* or "nan", or a finite double given by its decimal digits (kind "dec"):  *)
(* 0.s * 10^n for a digit string s that neither starts nor ends with "0";  *)
(* zero has s = "".  These are the integers k, n and s of Number::toString *)
(* in the language specification.  Roundings are made on the decimal       *)
(* digits, ties away from zero.                                            *)
(***************************************************************************)
Dec(neg, s, n) == [t |-> "dec", neg |-> neg, s |-> s, n |-> n]

RECURSIVE Zeros(_)
Zeros(k) == IF k <= 0 THEN "" ELSE "0" \o Zeros(k - 1)

\* the number of "0" characters a text ends with
RECURSIVE TrailingZeros(_)
TrailingZeros(text) ==
  IF text # "" /\ Char(text, Len(text)) = "0"
    THEN 1 + TrailingZeros(SubSeq(text, 1, Len(text) - 1))
    ELSE 0

\* the double 0.digits * 10^point, for digits that may start or end with "0"
Normalize(neg, digits, point) ==
  IF Span(digits, {"0"}) = Len(digits) THEN Dec(FALSE, "", 0)
  ELSE Dec(neg,
           SubSeq(digits, Span(digits, {"0"}) + 1, Len(digits) - TrailingZeros(digits)),
           point - Span(digits, {"0"}))

\* the first k digits of r/d after the point, for r < d
RECURSIVE Expand(_, _, _)
Expand(r, d, k) ==
  IF r = 0 \/ k = 0 THEN ""
  ELSE DigitChar((10 * r) \div d) \o Expand((10 * r) % d, d, k - 1)

\* the decimal digits of a finite number
ToDecimal(num) ==
  IF num.t = "dec" THEN num
  ELSE Normalize(num.n < 0,
                 Numeral(Abs(num.n) \div num.d)
                   \o Expand(Abs(num.n) % num.d, num.d, MaxExpansion),
                 Len(Numeral(Abs(num.n) \div num.d)))

\* the fraction a short decimal is
ToValue(x) ==
  IF x.t # "dec" THEN x
  ELSE IF x.s = "" THEN Num(0)
  ELSE IF x.n >= Len(x.s)
    THEN Num((IF x.neg THEN -1 ELSE 1) * DigitsValue(x.s, 10) * TenTo(x.n - Len(x.s)))
    ELSE Rat((IF x.neg THEN -1 ELSE 1) * DigitsValue(x.s, 10), TenTo(Len(x.s) - x.n))

\* the digit string of the next integer: "99" gives "100"
RECURSIVE Increment(_)
Increment(s) ==
  IF s = "" THEN "1"
  ELSE IF Char(s, Len(s)) = "9" THEN Increment(SubSeq(s, 1, Len(s) - 1)) \o "0"
  ELSE SubSeq(s, 1, Len(s) - 1) \o DigitChar(DigitValue(Char(s, Len(s))) + 1)

\* p digits after a carry: "1000" with p = 3 is "100" one place higher
Carried(r, n, p) ==
  IF Len(r) > p THEN [s |-> SubSeq(r, 1, p), n |-> n + 1] ELSE [s |-> r, n |-> n]

\* x rounded to p significant digits: exactly p digits and the place of the point
RoundTo(x, p) ==
  Carried(IF Len(x.s) > p /\ DigitValue(Char(x.s, p + 1)) >= 5
            THEN Increment(SubSeq(x.s, 1, p))
            ELSE SubSeq(x.s \o Zeros(p - Len(x.s)), 1, p),
          x.n, p)

SignText(neg) == IF neg THEN "-" ELSE ""

\* d.ddde+x
ExponentialText(s, n) ==
  Char(s, 1) \o (IF Len(s) > 1 THEN "." \o Rest(s, 2) ELSE "")
    \o "e" \o (IF n - 1 < 0 THEN "-" ELSE "+") \o Numeral(Abs(n - 1))

\* the digits s with the point after the first n of them
FixedText(s, n) ==
  CASE n <= 0 -> "0." \o Zeros(-n) \o s
    [] n > 0 /\ n >= Len(s) -> s \o Zeros(n - Len(s))
    [] n > 0 /\ n < Len(s) -> SubSeq(s, 1, n) \o "." \o Rest(s, n + 1)

toPrecisionAt(neg, r, p) ==
  SignText(neg) \o (IF r.n - 1 < -6 \/ r.n - 1 >= p
                      THEN ExponentialText(r.s, r.n)
                      ELSE FixedText(r.s, r.n))

\* Number.prototype.toPrecision, for a finite number that is not zero
toPrecision(x, p) == toPrecisionAt(x.neg, RoundTo(x, p), p)

toExponentialAt(neg, r) == SignText(neg) \o ExponentialText(r.s, r.n)

\* Number.prototype.toExponential, for a finite number that is not zero
toExponential(x, fractionDigits) == toExponentialAt(x.neg, RoundTo(x, fractionDigits + 1))

\* Number.prototype.toString
toString(x) ==
  CASE x.t = "nan" -> "NaN"
    [] x.t = "inf" -> IF x.n < 0 THEN "-Infinity" ELSE "Infinity"
    [] x.t = "dec" /\ x.s = "" -> "0"
    [] x.t = "dec" /\ x.s # "" ->
         SignText(x.neg) \o (IF -6 < x.n /\ x.n <= 21
                               THEN FixedText(x.s, x.n)
                               ELSE ExponentialText(x.s, x.n))

\* the parts of the longest prefix of a text that is a decimal literal:
\* sign, digits, point, digits, and an exponent if digits follow the "e"
Literal10(text) ==
  LET signed == text # "" /\ Char(text, 1) \in {"+", "-"}
      body == IF signed THEN Rest(text, 2) ELSE text
      i == Span(body, DigitChars)
      dot == Len(body) > i /\ Char(body, i + 1) = "."
      f == IF dot THEN Span(Rest(body, i + 2), DigitChars) ELSE 0
      mantissa == IF dot THEN i + 1 + f ELSE i
      after == Rest(body, mantissa + 1)
      marked == after # "" /\ Char(after, 1) \in {"e", "E"}
      esigned == marked /\ Len(after) > 1 /\ Char(after, 2) \in {"+", "-"}
      from == IF esigned THEN 3 ELSE 2
      e == IF marked THEN Span(Rest(after, from), DigitChars) ELSE 0
  IN  [ok |-> i + f > 0,
       infinity |-> Len(body) >= 8 /\ SubSeq(body, 1, 8) = "Infinity",
       neg |-> signed /\ Char(text, 1) = "-",
       digits |-> SubSeq(body, 1, i) \o SubSeq(body, i + 2, i + 1 + f),
       point |-> i,
       exponent |-> (IF esigned /\ Char(after, 2) = "-" THEN -1 ELSE 1)
                      * DigitsValue(SubSeq(after, from, from + e - 1), 10),
       len |-> (IF signed THEN 1 ELSE 0) + mantissa
                 + (IF e > 0 THEN from - 1 + e ELSE 0)]

\* the number a decimal literal denotes
LiteralValue(l) ==
  CASE l.infinity -> Infinity(IF l.neg THEN -1 ELSE 1)
    [] ~l.infinity /\ l.ok -> Normalize(l.neg, l.digits, l.point + l.exponent)
    [] OTHER -> NaN

\* Number(text), for a text without whitespace that is not empty
NumberAt(text, l) ==
  IF l.infinity \/ l.len = Len(text) THEN LiteralValue(l) ELSE NaN

Number(text) == NumberAt(text, Literal10(text))

\* parseFloat(text), for a text that does not start with whitespace
parseFloat(text) == LiteralValue(Literal10(text))

\* text.replace(/\.?0+$/, '')
replaceTrailingZeros(text) ==
  IF TrailingZeros(text) = 0 THEN text
  ELSE IF Len(text) > TrailingZeros(text)
            /\ Char(text, Len(text) - TrailingZeros(text)) = "."
    THEN SubSeq(text, 1, Len(text) - TrailingZeros(text) - 1)
    ELSE SubSeq(text, 1, Len(text) - TrailingZeros(text))

\* the locales of the host the model runs the calculator in
Locales == {"en-US", "de-DE"}

GroupSeparator(loc) == CASE loc = "en-US" -> "," [] loc = "de-DE" -> "."

\* digits in groups of three from the right
RECURSIVE Grouped(_, _)
Grouped(digits, separator) ==
  IF Len(digits) <= 3 THEN digits
  ELSE Grouped(SubSeq(digits, 1, Len(digits) - 3), separator)
         \o separator \o SubSeq(digits, Len(digits) - 2, Len(digits))

\* num.toLocaleString(undefined, {maximumFractionDigits: 0}) of an integer
toLocaleString(x, loc) ==
  IF x.s = "" THEN "0"
  ELSE SignText(x.neg) \o Grouped(FixedText(x.s, x.n), GroupSeparator(loc))

\* Math.abs(num) < 1e-10 && num !== 0
IsTiny(x) == x.s # "" /\ x.n <= -10

\* Math.abs(num) > 1e9
IsHuge(x) == x.s # "" /\ (x.n > 10 \/ (x.n = 10 /\ x.s # "1"))

\* Number.isInteger(num)
isInteger(x) == Len(x.s) <= x.n \/ x.s = ""

\* formatNumber of a finite number
formatFinite(x, loc) ==
  IF IsTiny(x) THEN toExponential(x, 4)
  ELSE IF IsHuge(x) THEN toExponential(x, 4)
  ELSE IF isInteger(x) THEN toLocaleString(x, loc)
  ELSE replaceTrailingZeros(toString(Number(toPrecision(x, 12))))

\* formatNumber(num) in a host of locale loc.  NaN fails every comparison
\* and is no integer, and its toPrecision is "NaN"; an infinity is above 1e9
\* and its toExponential is its name
formatNumber(num, loc) ==
  CASE num.t = "nan" -> replaceTrailingZeros(toString(NaN))
    [] num.t = "inf" -> toString(num)
    [] num.t \in {"num", "dec"} -> formatFinite(ToDecimal(num), loc)

(***************************************************************************)
(* The state machine.  `impl` is the module under test, fixed at the       *)
(* start; each module has its own resultCache.  `last` records the most    *)
(* recent call of safeEvaluate; `clock` counts the insertions.             *)
(***************************************************************************)
\* const THEME_KEY
THEME_KEY == "calculator-theme"

Entries(cache) == {cache[i] : i \in 1..Len(cache)}

Keys(cache) == {cache[i].key : i \in 1..Len(cache)}

NoCall ==
  [called |-> FALSE, expression |-> "", c |-> NoResult, hit |-> FALSE,
   handed |-> FALSE, produced |-> NoResult, evicted |-> {}, hostChanged |-> FALSE]

\* no key was pressed yet
NoEvent ==
  [key |-> "", evaluated |-> FALSE, c |-> NoResult, failed |-> FALSE,
   label |-> "", formatted |-> {}]

\* no function was applied yet
NoApplication == [name |-> "", argument |-> undefined, c |-> NoResult]

\* the expressions the caller passes in the specification Spec
SampleExpressions ==
  {"2+2", "Math.sqrt(16)", "localStorage.length",
   "10/0", "Math.PI",
   "sqrt(-1)", "log(0)", "tan(90)",
   "Math.sqrt(-1)", "Math.log(0)", "Math.tan(90)",
   "Math.pow(10,400)", "Math.abs(1)",
   "", "1 ; 2", "( 1+2", "1+2)", "(1;2", "abc", "Domain", "2x",
   "1+", "2*)(", "localStorage.clear()"}

Init ==
  /\ impl \in {"App", "lib"}
  /\ resultCache = <<>>
  /\ localStorage \in SUBSET {THEME_KEY}
  /\ fresh = 0
  /\ clock = 0
  /\ last = NoCall
  /\ display = "0"
  /\ equation = ""
  /\ locale = "en-US"
  /\ ui = NoEvent
  /\ applied = NoApplication

\* the state after a call that gave r
Return(expression, r) ==
  /\ resultCache' = r.cache
  /\ localStorage' = r.host.localStorage
  /\ clock' = IF r.c.type = "normal" /\ ~r.hit THEN clock + 1 ELSE clock
  /\ last' = [called |-> TRUE, expression |-> expression, c |-> r.c,
              hit |-> r.hit, handed |-> r.handed, produced |-> r.produced,
              evicted |-> Entries(resultCache) \ Entries(r.cache),
              hostChanged |-> r.host # Host(localStorage)]
  /\ UNCHANGED impl

\* one call safeEvaluate(expression), run to completion
Do(expression) ==
  /\ clock < MaxInsertions
  /\ UNCHANGED uiVars
  /\ Return(expression,
            safeEvaluate(impl, expression, resultCache,
                         Host(localStorage), clock))

\* a call with one of the sample expressions
EvaluateSample == \E expression \in SampleExpressions : Do(expression) /\ UNCHANGED fresh

\* a call with a numeral not passed before
EvaluateFresh == Do(Numeral(fresh)) /\ fresh' = fresh + 1

\* a call with the key of the oldest entry of the cache
EvaluateOldest == resultCache # <<>> /\ Do(Head(resultCache).key) /\ UNCHANGED fresh

\* a call with the key of the newest entry of the cache
EvaluateNewest ==
  resultCache # <<>> /\ Do(resultCache[Len(resultCache)].key) /\ UNCHANGED fresh

\* a call with the first numeral again
EvaluateFirst == fresh > 0 /\ Do(Numeral(0)) /\ UNCHANGED fresh

\* expressions that fail: in the result validation, at the balance check, at
\* the character validation, in a guard of the registry, in the evaluation
FailingExpressions == {"10/0", "( 1+2", "1 ; 2", "Math.sqrt(-1)", "abc"}

\* a call that fails
EvaluateFailing ==
  \E expression \in FailingExpressions : Do(expression) /\ UNCHANGED fresh

\* the host: App's theme effect, localStorage.setItem(THEME_KEY, ...)
SetTheme ==
  /\ THEME_KEY \notin localStorage
  /\ localStorage' = localStorage \cup {THEME_KEY}
  /\ UNCHANGED <<impl, resultCache, fresh, clock, last>>
  /\ UNCHANGED uiVars

Next == EvaluateSample \/ SetTheme

Spec == Init /\ [][Next]_vars

\* the cache at its limit: many distinct expressions, with repeats and failures
NextCache ==
  EvaluateFresh \/ EvaluateOldest \/ EvaluateNewest \/ EvaluateFirst \/ EvaluateFailing

SpecCache == Init /\ [][NextCache]_vars

\* expressions that differ only in whitespace
SpacedExpressions == {"2+2", "2 + 2", "localStorage.length", " localStorage.length"}

EvaluateSpaced == \E expression \in SpacedExpressions : Do(expression) /\ UNCHANGED fresh

NextKeys == EvaluateSpaced \/ SetTheme

SpecKeys == Init /\ [][NextKeys]_vars

(***************************************************************************)
(* The functions of mathContext applied directly to a number, as           *)
(* handleOperator applies them to the number on the screen.                *)
(***************************************************************************)
GuardedFunctions == {"asin", "acos", "log", "ln", "sqrt"}

MathArguments ==
  {Rat(k, 4) : k \in (-MaxQuarters)..MaxQuarters}
    \cup {Infinity(1), Infinity(-1), NaN}

Application(name, x, c) == [name |-> name, argument |-> x, c |-> c]

Angles == {Num(x) : x \in (-MaxAngle)..MaxAngle}

\* a number is given and no function was applied to it yet
InitMath ==
  /\ impl = "lib"
  /\ resultCache = <<>>
  /\ localStorage = {}
  /\ fresh = 0
  /\ clock = 0
  /\ last = NoCall
  /\ display = "0"
  /\ equation = ""
  /\ locale = "en-US"
  /\ ui = NoEvent
  /\ applied \in {Application("", x, NoResult) : x \in MathArguments \cup Angles}

\* one call mathContext[name](x) with the given number
ApplyFunction(name) ==
  /\ applied.name = ""
  /\ applied' = Application(name, applied.argument,
                            CallRegistry(name, <<applied.argument>>))
  /\ UNCHANGED <<impl, resultCache, localStorage, fresh, clock, last>>
  /\ UNCHANGED <<display, equation, locale, ui>>

ApplyGuarded == \E name \in GuardedFunctions : ApplyFunction(name)

ApplyTan == applied.argument \in Angles /\ ApplyFunction("tan")

NextMath == ApplyGuarded \/ ApplyTan

SpecMath == InitMath /\ [][NextMath]_vars

(***************************************************************************)
(* The calculator of App.tsx: the state `display` and `equation` and the   *)
(* handlers of its keys.  A handler gives the screen it sets, the call of  *)
(* safeEvaluate it made, the failure it caught and the numbers it passed   *)
(* to formatNumber.                                                        *)
(***************************************************************************)
\* if (display.length >= 16) return
MaxDisplayLength == 16

Handled(d, e, r, failed, label, formatted) ==
  [display |-> d, equation |-> e, r |-> r, failed |-> failed, label |-> label,
   formatted |-> formatted]

\* the handler did not call safeEvaluate
NoEvaluation(cache, host) == Call(NoResult, cache, host, FALSE, FALSE, NoResult)

\* Math.PI and Math.E
MathPI == Dec(FALSE, "3141592653589793", 1)

MathE == Dec(FALSE, "2718281828459045", 1)

handleNumber(num, d) ==
  IF Len(d) >= MaxDisplayLength THEN d
  ELSE IF num = "." /\ includes(d, ".") THEN d
  ELSE IF d = "0" /\ num # "." THEN num
  ELSE d \o num

\* the switch over the function keys
applyKey(op, currentValue) ==
  CASE op \in {"Math.log10(", "Math.log("} -> log(currentValue)
    [] op = "Math.ln(" -> ln(currentValue)
    [] op = "Math.sin(" -> sin(currentValue)
    [] op = "Math.cos(" -> cos(currentValue)
    [] op = "Math.tan(" -> tan(currentValue)
    [] op = "Math.sqrt(" -> sqrt(currentValue)
    [] op = "Math.pow(" -> pow(currentValue, Num(2))
    [] OTHER -> Throw("Invalid function")

\* the try statement of a function key, given what the function gave
functionKey(c, cache, host, loc) ==
  IF c.type = "normal"
    THEN Handled(formatNumber(c.value, loc), "", NoEvaluation(cache, host),
                 FALSE, "", {c.value})
    ELSE Handled(c.message, "", NoEvaluation(cache, host), TRUE, c.message, {})

\* a parenthesis key
parenthesis(op, d, e, newEquation, cache, host) ==
  IF op = ")" /\ CountChar(newEquation, ")") > CountChar(newEquation, "(")
    THEN Handled("Syntax Error", e, NoEvaluation(cache, host), FALSE, "", {})
    ELSE Handled("0", newEquation, NoEvaluation(cache, host), FALSE, "", {})

\* a binary operator whose catch block leaves the equation pending
operatorEvaluatedKeeping(op, e, r, loc) ==
  IF r.c.type = "normal"
    THEN Handled("0", formatNumber(r.c.value, loc) \o " " \o op \o " ", r,
                 FALSE, "", {r.c.value})
    ELSE Handled(r.c.message, e, r, TRUE, r.c.message, {})

\* the try statement of a binary operator, given what safeEvaluate gave
operatorEvaluated(op, e, r, loc) ==
  IF r.c.type = "normal"
    THEN Handled("0", formatNumber(r.c.value, loc) \o " " \o op \o " ", r,
                 FALSE, "", {r.c.value})
    ELSE Handled(r.c.message, "", r, TRUE, r.c.message, {})

handleOperator(op, d, e, cache, host, now, loc) ==
  IF d = "Error" THEN Handled(d, e, NoEvaluation(cache, host), FALSE, "", {})
  ELSE IF op \in {"Math.PI", "Math.E"}
    THEN Handled(formatNumber(IF op = "Math.PI" THEN MathPI ELSE MathE, loc), e,
                 NoEvaluation(cache, host), FALSE, "",
                 {IF op = "Math.PI" THEN MathPI ELSE MathE})
  ELSE IF Len(op) >= 5 /\ SubSeq(op, 1, 5) = "Math."
    THEN functionKey(applyKey(op, ToValue(parseFloat(d))), cache, host, loc)
  ELSE IF op \in {"(", ")"}
    THEN parenthesis(op, d, e,
                     e \o (IF d # "0" /\ d # "Error" THEN d ELSE "") \o op,
                     cache, host)
  ELSE IF e # "" /\ d # "0"
    THEN operatorEvaluated(op, e, safeEvaluate("App", e \o d, cache, host, now), loc)
  ELSE Handled("0", (IF d = "0" THEN "0" ELSE d) \o " " \o op \o " ",
               NoEvaluation(cache, host), FALSE, "", {})

\* the try statement of calculate, given what safeEvaluate gave
calculated(r, loc) ==
  IF r.c.type = "normal"
    THEN IF ~isFinite(r.c.value)
           THEN Handled("Math Error", "", r, FALSE, "", {})
           ELSE Handled(formatNumber(r.c.value, loc), "", r, FALSE, "", {r.c.value})
    ELSE Handled(IF r.c.isError THEN r.c.message ELSE "Syntax Error", "", r,
                 TRUE, r.c.message, {})

calculate(d, e, cache, host, now, loc) ==
  IF e = "" \/ d = "Error"
    THEN Handled("0", "", NoEvaluation(cache, host), FALSE, "", {})
    ELSE calculated(safeEvaluate("App", e \o d, cache, host, now), loc)

clear(cache, host) == Handled("0", "", NoEvaluation(cache, host), FALSE, "", {})

\* a backspace that removes the last character also when it is the only one
handleBackspaceSlicing(d, e, cache, host) ==
  IF d = "Error" THEN Handled("0", "", NoEvaluation(cache, host), FALSE, "", {})
  ELSE Handled(SubSeq(d, 1, Len(d) - 1), e, NoEvaluation(cache, host), FALSE, "", {})

handleBackspace(d, e, cache, host) ==
  IF d = "Error" THEN Handled("0", "", NoEvaluation(cache, host), FALSE, "", {})
  ELSE IF Len(d) = 1 THEN Handled("0", e, NoEvaluation(cache, host), FALSE, "", {})
  ELSE Handled(SubSeq(d, 1, Len(d) - 1), e, NoEvaluation(cache, host), FALSE, "", {})

\* the keys of the calculator
DigitKeys == {"5", "."}

BinaryKeys == {"+", "-", "*", "/"}

FunctionKeys ==
  {"Math.sin(", "Math.cos(", "Math.tan(", "Math.ln(", "Math.log10(",
   "Math.sqrt(", "Math.pow(", "Math.PI"}

\* the length of the longest numeral of a text, given the length `run` of
\* the numeral the text continues and the longest length seen before
RECURSIVE LongestNumeral(_, _, _)
LongestNumeral(text, run, best) ==
  IF text = "" THEN (IF run > best THEN run ELSE best)
  ELSE IF Char(text, 1) \in DigitChars
    THEN LongestNumeral(Rest(text, 2), run + 1, best)
    ELSE LongestNumeral(Rest(text, 2), 0, IF run > best THEN run ELSE best)

\* the numerals of the text are short and have no exponent
ShortNumerals(text) ==
  /\ LongestNumeral(text, 0, 0) <= MaxDigits
  /\ ~\E i \in 1..(Len(text) - 1) :
        Char(text, i) \in DigitChars /\ Char(text, i + 1) \in {"e", "E"}

\* the function gave a value the model computes
Computed(c) == IF c.type = "throw" THEN TRUE ELSE c.value.t # "float"

\* the value of a function key is one the model computes
Computes(op, x) ==
  IF op \in {"Math.PI", "Math.E"} \/ x.t = "nan" THEN TRUE
  ELSE IF x.t # "dec" THEN FALSE
  ELSE IF ~(ShortNumerals(x.s) /\ Abs(x.n) <= MaxDigits) THEN FALSE
  ELSE IF op = "Math.pow(" /\ ~isInteger(x) THEN FALSE
  ELSE Computed(applyKey(op, ToValue(x)))

\* the calculator as App mounts it
InitUI ==
  /\ impl = "App"
  /\ resultCache = <<>>
  /\ localStorage = {THEME_KEY}
  /\ fresh = 0
  /\ clock = 0
  /\ last = NoCall
  /\ display = "0"
  /\ equation = ""
  /\ locale \in Locales
  /\ ui = NoEvent
  /\ applied = NoApplication

\* the state after a handler that did h
Show(key, h) ==
  /\ display' = h.display
  /\ equation' = h.equation
  /\ ui' = [key |-> key, evaluated |-> h.r.c.type # "none", c |-> h.r.c,
            failed |-> h.failed, label |-> h.label, formatted |-> h.formatted]
  /\ resultCache' = h.r.cache
  /\ localStorage' = h.r.host.localStorage
  /\ clock' = IF h.r.c.type = "normal" /\ ~h.r.hit THEN clock + 1 ELSE clock
  /\ UNCHANGED <<impl, fresh, last, locale, applied>>

PressDigit ==
  \E num \in DigitKeys :
    /\ clock < MaxUiInsertions
    /\ Len(display) < MaxTyped
    /\ Show("handleNumber", Handled(handleNumber(num, display), equation,
                         NoEvaluation(resultCache, Host(localStorage)),
                         FALSE, "", {}))

PressBackspace ==
  /\ clock < MaxUiInsertions
  /\ Len(display) <= MaxTyped
  /\ Show("handleBackspace",
          handleBackspace(display, equation, resultCache, Host(localStorage)))

PressOperator ==
  \E op \in BinaryKeys :
    /\ clock < MaxUiInsertions
    /\ ShortNumerals(equation \o display)
    /\ Show("operator", handleOperator(op, display, equation, resultCache,
                                       Host(localStorage), clock, locale))

PressFunction ==
  \E op \in FunctionKeys :
    /\ clock < MaxUiInsertions
    /\ display # "Error"
    /\ Computes(op, parseFloat(display))
    /\ Show("function", handleOperator(op, display, equation, resultCache,
                                       Host(localStorage), clock, locale))

PressEquals ==
  /\ clock < MaxUiInsertions
  /\ ShortNumerals(equation \o display)
  /\ Show("calculate", calculate(display, equation, resultCache, Host(localStorage),
                                 clock, locale))

PressClear ==
  /\ clock < MaxUiInsertions
  /\ Show("clear", clear(resultCache, Host(localStorage)))

NextUI ==
  PressDigit \/ PressBackspace \/ PressOperator \/ PressFunction
    \/ PressEquals \/ PressClear

SpecUI == InitUI /\ [][NextUI]_vars

(***************************************************************************)
(* formatNumber applied to a number.                                       *)
(***************************************************************************)
\* significant digits of the numbers formatted
DigitSamples ==
  {"1", "5", "25", "123", "1234567", "123456789012345", "12300000000001",
   "10000000000001", "999999999999996", "3141592653589793"}

FormatArguments ==
  {Dec(neg, s, n) : neg \in BOOLEAN, s \in DigitSamples, n \in (-MaxPoint)..MaxPoint}
    \cup {Num(0), Rat(1, 3), Rat(-5, 8), Num(-1250), NaN, Infinity(1), Infinity(-1)}

\* a number is given and was not formatted yet
InitFormat ==
  /\ impl \in {"App", "lib"}
  /\ resultCache = <<>>
  /\ localStorage = {}
  /\ fresh = 0
  /\ clock = 0
  /\ last = NoCall
  /\ display = "0"
  /\ equation = ""
  /\ locale \in Locales
  /\ ui = NoEvent
  /\ applied \in {Application("", x, NoResult) : x \in FormatArguments}

\* one call formatNumber(num)
Format ==
  /\ applied.name = ""
  /\ applied' = Application("formatNumber", applied.argument,
                            Normal(JsString(formatNumber(applied.argument, locale))))
  /\ UNCHANGED <<impl, resultCache, localStorage, fresh, clock, last>>
  /\ UNCHANGED <<display, equation, locale, ui>>

SpecFormat == InitFormat /\ [][Format]_vars

(***************************************************************************)
(* Properties.                                                             *)
(***************************************************************************)
Failed(label) == last.c.type = "throw" /\ last.c.message = label

Unbalanced(sanitized) == CountChar(sanitized, "(") # CountChar(sanitized, ")")

RegistryNames == RegistryFunctions \cup RegistryConstants

\* some identifier among the tokens is neither Math nor a name of the registry
HasUnregisteredWord(toks) ==
  \E i \in 1..Len(toks) :
    toks[i].k \in {"id", "bad"} /\ toks[i].text \notin RegistryNames \cup {"Math"}

\* the evaluation step produced a value that is not a finite number
ProducedNonFinite ==
  /\ last.produced.type = "normal"
  /\ ~(typeof(last.produced.value) = "number" /\ isFinite(last.produced.value))

\* the evaluation step failed, and not in a guard of the math context or in
\* the result validation
ProducedOtherFailure ==
  last.produced.type = "throw" /\ last.produced.message \notin CalculationError

\* C1: the cache never holds more than 100 entries; after 101 successful
\* evaluations of 101 distinct expressions it holds exactly 100, without the
\* first-inserted key and with the 101st.
C1_CacheBound ==
  /\ Len(resultCache) <= 100
  /\ (fresh = 101 /\ clock = 101) =>
       /\ Len(resultCache) = 100
       /\ Numeral(0) \notin Keys(resultCache)
       /\ Numeral(100) \in Keys(resultCache)

\* C2: every failing call fails with one of the six CalculationError labels,
\* in App.tsx and in the library file.
C2_SixLabels ==
  (last.called /\ last.c.type = "throw") => last.c.message \in CalculationError

\* C3 (as claimed): a registry function called by its bare name reaches its
\* guard: "sqrt(-1)" and "log(0)" fail with DOMAIN, "tan(90)" with UNDEFINED.
C3_BareNames ==
  /\ last.expression = "sqrt(-1)" => Failed(CalculationError_DOMAIN)
  /\ last.expression = "log(0)" => Failed(CalculationError_DOMAIN)
  /\ last.expression = "tan(90)" => Failed(CalculationError_UNDEFINED)

\* C3 (amended): a registry function called as a member of Math reaches its
\* guard: "Math.sqrt(-1)" and "Math.log(0)" fail with DOMAIN, "Math.tan(90)"
\* with UNDEFINED.
C3_QualifiedNames ==
  /\ last.expression = "Math.sqrt(-1)" => Failed(CalculationError_DOMAIN)
  /\ last.expression = "Math.log(0)" => Failed(CalculationError_DOMAIN)
  /\ last.expression = "Math.tan(90)" => Failed(CalculationError_UNDEFINED)

C3_Witness ==
  last.expression = "Math.tan(90)" /\ Failed(CalculationError_UNDEFINED) /\ last.handed

\* C4: an expression with a character outside the allowed class, or with a
\* letter sequence that is no name of the registry, fails with INVALID and is
\* never handed to the evaluation step.
C4_InvalidNeverEvaluated ==
  (/\ last.called
   /\ \/ ~RegexTest(sanitize(last.expression))
      \/ HasUnregisteredWord(Tokenize(sanitize(last.expression))))
    => (Failed(CalculationError_INVALID) /\ ~last.handed)

\* C5 (as claimed): an expression with different numbers of '(' and ')' fails
\* with SYNTAX, whatever other characters it contains.
C5_UnbalancedIsSyntax ==
  (last.called /\ Unbalanced(last.expression)) => Failed(CalculationError_SYNTAX)

\* C5 (amended): an expression whose whitespace-stripped form is not empty,
\* has only characters of the allowed class and has different numbers of '('
\* and ')' fails with SYNTAX, at the balance check.
C5_AllowedUnbalancedIsSyntax ==
  (/\ last.called
   /\ RegexTest(sanitize(last.expression))
   /\ Unbalanced(sanitize(last.expression)))
    => (Failed(CalculationError_SYNTAX) /\ ~last.handed)

C5_Witness ==
  /\ last.expression = "( 1+2"
  /\ Failed(CalculationError_SYNTAX)
  /\ ~last.handed

\* C6: when the evaluation step produces a value that is not a finite number,
\* the call fails with INVALID, in App.tsx and in the library file.
C6_NonFiniteIsInvalid ==
  (last.called /\ ProducedNonFinite) => Failed(CalculationError_INVALID)

C8_HitEqualsMiss ==
  \A i \in 1..Len(resultCache) :
    safeEvaluate(impl, resultCache[i].key, <<>>, Host(localStorage), 0).c
      = Normal(resultCache[i].value)

\* C9: eviction is first-in-first-out: an evicted entry was inserted before
\* every entry that stays, and the entries are always in the order of their
\* insertion, so a hit moves nothing.
C9_Fifo ==
  /\ \A i, j \in 1..Len(resultCache) :
       i < j => resultCache[i].at < resultCache[j].at
  /\ \A e \in last.evicted : \A f \in Entries(resultCache) : e.at < f.at

C9_Witness ==
  /\ last.called /\ last.hit
  /\ last.evicted # {}
  /\ last.expression # Head(resultCache).key

\* C10: the evaluation step reaches nothing outside arithmetic and the
\* registry: a call changes no state of the host, and its outcome is the same
\* in every host.
C10_Sandboxed ==
  (last.called /\ last.handed) =>
    /\ ~last.hostChanged
    /\ \A storage \in SUBSET {THEME_KEY} :
         ValidateResult(RunFunction(sanitize(last.expression), Host(storage))).c
           = ValidateResult(RunFunction(sanitize(last.expression), Host({}))).c

\* the argument lies outside the domain the specification gives the function
OutOfDomain(name, x) ==
  CASE x.t = "nan" -> FALSE
    [] name \in {"asin", "acos"} -> x.t = "inf" \/ Abs(x.n) > x.d
    [] name \in {"log", "ln"} -> x.n <= 0
    [] name = "sqrt" -> x.n < 0

ReturnsNumber(c) == c.type = "normal" /\ typeof(c.value) = "number"

\* C13: asin and acos fail with DOMAIN exactly when |x| > 1, log and ln
\* exactly when x <= 0, sqrt exactly when x < 0; for every other argument
\* the function returns a number.
C13_DomainGuards ==
  applied.name \in GuardedFunctions =>
    IF OutOfDomain(applied.name, applied.argument)
      THEN applied.c = Throw(CalculationError_DOMAIN)
      ELSE ReturnsNumber(applied.c)

C13_Witness ==
  /\ applied.name = "log"
  /\ applied.argument = Num(0)
  /\ applied.c = Throw(CalculationError_DOMAIN)

\* C14: for every integer angle x the normalized angle is x modulo 360, in
\* 0..359, and tan(x) fails with UNDEFINED exactly when that angle is 90 or
\* 270; for every other integer angle tan returns a number.
C14_TanAsymptotes ==
  (applied.name = "tan" /\ applied.argument.t = "num" /\ applied.argument.d = 1) =>
    /\ normalized(applied.argument) = Num(applied.argument.n % 360)
    /\ IF applied.argument.n % 360 \in {90, 270}
         THEN applied.c = Throw(CalculationError_UNDEFINED)
         ELSE ReturnsNumber(applied.c)

C14_Witness ==
  /\ applied.name = "tan"
  /\ applied.argument \in {Num(-90), Num(450), Num(-270)}
  /\ applied.c = Throw(CalculationError_UNDEFINED)

\* C16: the key of an entry is the expression as passed, whitespace included:
\* a successful call leaves an entry under its own expression, and entries
\* whose expressions differ only in whitespace hold the same number.
C16_RawKeySameNumber ==
  /\ (last.called /\ last.c.type = "normal") =>
       /\ CacheHas(resultCache, last.expression)
       /\ CacheGet(resultCache, last.expression) = last.c.value
  /\ \A i, j \in 1..Len(resultCache) :
       sanitize(resultCache[i].key) = sanitize(resultCache[j].key)
         => resultCache[i].value = resultCache[j].value

\* the entries a step removes from the cache, and those it adds
Removed == Entries(resultCache) \ Entries(resultCache')

Added == Entries(resultCache') \ Entries(resultCache)

\* a step adds an entry only for a successful evaluation of the expression
\* passed, and removes an entry only as the oldest of more than 100
StepKeepsResults ==
  /\ Added # {} =>
       /\ last'.c.type = "normal" /\ last'.handed
       /\ last'.produced = last'.c
       /\ Added = {Entry(last'.expression, last'.c.value, clock)}
  /\ last'.c.type = "throw" => Added = {}
  /\ Removed # {} =>
       /\ Len(resultCache) > CacheLimit
       /\ Removed = {Head(resultCache)}

\* C17: every entry holds a finite number, the one a successful evaluation of
\* the entry's own expression produced when the entry was made; a failing
\* call adds nothing; an entry leaves only as the oldest of more than 100.
C17_EntriesAreResults ==
  /\ [](\A e \in Entries(resultCache) :
          typeof(e.value) = "number" /\ isFinite(e.value))
  /\ [][StepKeepsResults]_vars

C17_Witness ==
  /\ last.called /\ last.c.type = "throw"
  /\ last.evicted # {}
  /\ Len(resultCache) = CacheLimit

\* a step made with more than 100 entries removes the oldest and does not
\* find it; a hit evaluates nothing and adds nothing
StepEvictsFirst ==
  /\ Len(resultCache) > CacheLimit =>
       /\ Removed = {Head(resultCache)}
       /\ (last'.expression = Head(resultCache).key) =>
            (~last'.hit /\ last'.handed /\ last'.c.type = "normal")
  /\ last'.hit =>
       /\ ~last'.handed
       /\ last'.c = Normal(CacheGet(resultCache, last'.expression))
       /\ Added = {}

\* C18: the eviction check comes first: a call made with more than 100
\* entries removes the oldest, also when it hits or fails; a call with the
\* oldest key then misses and evaluates again; a hit returns the stored
\* number without an evaluation and without an insertion.
C18_EvictionFirst == [][StepEvictsFirst]_vars

C18_Witness ==
  /\ last.called /\ ~last.hit /\ last.handed
  /\ \E e \in last.evicted : e.key = last.expression

\* a step removes at most one entry and adds at most one
StepMovesOne == Cardinality(Removed) <= 1 /\ Cardinality(Added) <= 1

\* C19: the cache never holds more than 101 entries; a call removes at most
\* one entry and adds at most one.
C19_AtMost101 ==
  /\ [](Len(resultCache) <= CacheLimit + 1)
  /\ [][StepMovesOne]_vars

C19_Witness == Len(resultCache) = CacheLimit + 1 /\ last.evicted # {}

\* formatter rule 4: a number that is no integer, with 1e-10 <= |n| <= 1e9
Rule4(x) == x.t = "dec" /\ ~IsTiny(x) /\ ~IsHuge(x) /\ ~isInteger(x)

\* x rounded to p significant digits, as a number
Rounded(x, p) == Normalize(x.neg, RoundTo(x, p).s, RoundTo(x, p).n)

\* C15: for a number of rule 4 the text formatNumber returns denotes the
\* number rounded to 12 significant digits: the stripping removes no digit
\* of the integer part and no digit of an exponent.
C15_DenotesRounded ==
  (applied.name = "formatNumber" /\ Rule4(applied.argument)) =>
    Number(applied.c.value.of) = Rounded(applied.argument, 12)


\* a number that is neither NaN nor an infinity
IsFiniteNumber(v) == v.t = "dec" \/ isFinite(v)

\* C11: after every sequence of key presses, every number the handler of the
\* last key passed to formatNumber is finite, and the display shows neither
\* NaN nor an infinity.
C11_FormatsFinite ==
  /\ \A v \in ui.formatted : IsFiniteNumber(v)
  /\ display \notin {"NaN", "Infinity", "-Infinity"}

\* C12: when the handler of a key caught a failure (a binary operator with a
\* pending equation, '=' or a function key), the display is the message of
\* that failure and the equation is empty; when the failure came from
\* safeEvaluate, the message is the one safeEvaluate threw.
C12_FailureResets ==
  ui.failed =>
    /\ display = ui.label
    /\ equation = ""
    /\ ui.key \in {"operator", "calculate", "function"}
    /\ ui.evaluated => (ui.c.type = "throw" /\ ui.label = ui.c.message)

\* a binary operator pressed with a pending equation failed in safeEvaluate
C12_Witness ==
  /\ ui.key = "operator"
  /\ ui.evaluated
  /\ ui.failed
  /\ display = ui.c.message
  /\ equation = ""

\* the last key was a binary operator whose evaluation of the pending
\* equation gave an integer n with |n| <= 1e9
ChainedInteger ==
  /\ ui.key = "operator"
  /\ ui.evaluated
  /\ ui.c.type = "normal"
  /\ isInteger(ToDecimal(ui.c.value))
  /\ ~IsHuge(ToDecimal(ui.c.value))

\* C20: after a binary operator whose evaluation gave an integer n with
\* |n| <= 1e9, the equation is formatNumber(n), a space, the operator and a
\* space, and the evaluation of the text formatNumber(n) gives n again, so the
\* next evaluation of the equation continues from n.
C20_ChainKeepsValue ==
  ChainedInteger =>
    /\ \E op \in BinaryKeys :
         equation = formatNumber(ui.c.value, locale) \o " " \o op \o " "
    /\ ValidateResult(RunFunction(sanitize(formatNumber(ui.c.value, locale)),
                                  Host(localStorage))).c = Normal(ui.c.value)

\* the display shows the label of the failure the last handler caught
ShowsFailure == ui.failed /\ display = ui.label

\* a binary operator or a function key pressed on the label of a failure
\* changes neither the display nor the equation
StepKeepsErrorScreen ==
  (ShowsFailure /\ ui'.key \in {"operator", "function"}) =>
    (display' = display /\ equation' = equation)

\* C21: while the display shows the error label of a failed evaluation, a
\* binary operator or a function key leaves display and equation unchanged:
\* the label is neither copied into the equation nor parsed as an operand.
C21_ErrorScreenInert == [][StepKeepsErrorScreen]_vars

\* what safeEvaluate gives for the pending equation followed by the display
Pending == safeEvaluate("App", equation \o display, resultCache,
                        Host(localStorage), clock).c

\* a binary operator pressed with a pending equation whose evaluation with
\* the display succeeds leaves the value of that evaluation as left operand
StepKeepsLeftOperand ==
  (equation # "" /\ ui'.key = "operator"
     /\ ShortNumerals(equation \o display) /\ Pending.type = "normal") =>
    \E op \in BinaryKeys :
      equation' = formatNumber(Pending.value, locale) \o " " \o op \o " "

\* C22: a binary operator pressed while an equation 'a op1 ' is pending, with
\* any display d, d = '0' included, leaves an equation whose left operand is
\* the value of a op1 d.
C22_KeepsLeftOperand == [][StepKeepsLeftOperand]_vars

\* backspace on a display of one character gives '0', and clear gives the
\* display '0' and the empty equation
StepBackspaceClear ==
  /\ (ui'.key = "handleBackspace" /\ Len(display) = 1) => display' = "0"
  /\ ui'.key = "clear" => (display' = "0" /\ equation' = "")

\* C23: after every sequence of key presses the display is not empty;
\* backspace on a display of one character gives '0'; clear gives the display
\* '0' and the empty equation.
C23_DisplayNonEmpty == [](display # "") /\ [][StepBackspaceClear]_vars

\* backspace removed the only character typed after an operator
C23_Witness ==
  /\ ui.key = "handleBackspace"
  /\ display = "0"
  /\ equation # ""

====
